---- MODULE Spec2Model ----
(***************************************************************************)
(* Model of cmd/entmaid.go (lespea/entmaid): the Mermaid ER-diagram        *)
(* builder generateMermaidCode, the type formatter formatType and the      *)
(* marker splicer insertMultiLineString.                                   *)
(*                                                                         *)
(* Text is modelled as Go models it: a string is a sequence of one-        *)
(* character strings.  The builder's output is kept as the sequence of its *)
(* lines (every Sprintf of the builder ends in "\n", so the text is the    *)
(* lines joined by "\n"); a line is again a sequence of characters.        *)
(***************************************************************************)
EXTENDS Integers, Sequences, FiniteSets, TLC

VARIABLES
    graph,        \* *gen.Graph handed to generateMermaidCode: the sequence graph.Nodes
    out,          \* lines returned by generateMermaidCode
    built,        \* generateMermaidCode has returned
    typeName,     \* argument of formatType
    token,        \* result of formatType
    formatted,    \* formatType has returned
    targetFile,   \* content on disk of the file at filePath
    origFile,     \* content on disk before the first call of insertMultiLineString
    prevFile,     \* content on disk before the latest call of insertMultiLineString
    insertion,    \* argument multiLineString
    startMarker,  \* argument startPattern
    endMarker,    \* argument endPattern
    status,       \* outcome of the latest call: "none", "ok", "error", "panic"
    writes,       \* number of os.WriteFile calls performed so far
    runs          \* number of calls of insertMultiLineString so far

diagramVars == <<graph, out, built>>
typeVars == <<typeName, token, formatted>>
spliceVars == <<targetFile, origFile, prevFile, insertion, startMarker, endMarker, status, writes, runs>>
vars == <<graph, out, built, typeName, token, formatted, targetFile, origFile, prevFile,
          insertion, startMarker, endMarker, status, writes, runs>>

\* Each specification runs one of the three operations; the variables of the
\* other two rest at these values.
DiagramIdle == graph = <<>> /\ out = <<>> /\ built = FALSE
TypeIdle == typeName = <<>> /\ token = <<>> /\ formatted = FALSE
SpliceIdle ==
    /\ targetFile = <<>> /\ origFile = <<>> /\ prevFile = <<>> /\ insertion = <<>>
    /\ startMarker = <<>> /\ endMarker = <<>>
    /\ status = "none" /\ writes = 0 /\ runs = 0

(***************************************************************************)
(* Bounds of the model.                                                    *)
(***************************************************************************)
MaxFileLen == 4
MaxPatternLen == 2
MaxTextLen == 1
MaxRuns == 2
MaxTypeLen == 4
MaxNodes == 2
MaxEdges == 2
MaxFields == 2
MaxForeignKeys == 2

(***************************************************************************)
(* Strings.                                                                *)
(***************************************************************************)
NL == "\n"

\* All strings over alphabet of length at most n.
StringsUpTo(alphabet, n) == UNION {[1..k -> alphabet] : k \in 0..n}

\* Go s[lo:hi], 0-based, hi exclusive.
Slice(s, lo, hi) == SubSeq(s, lo + 1, hi)

\* strings.Index: 0-based index of the first occurrence of substr in s, -1 when absent.
Index(s, substr) ==
    LET hits == {i \in 0..(Len(s) - Len(substr)) : Slice(s, i, i + Len(substr)) = substr}
    IN  IF hits = {} THEN -1 ELSE CHOOSE i \in hits : \A j \in hits : i <= j

\* Number of positions of s holding character c.
CountChar(s, c) == Cardinality({i \in 1..Len(s) : s[i] = c})

(***************************************************************************)
(* formatType (entmaid.go:116-127).                                        *)
(***************************************************************************)
TimeTime == <<"t","i","m","e",".","T","i","m","e">>
MapInterfaceSp == <<"m","a","p","[","s","t","r","i","n","g","]","i","n","t","e","r","f","a","c","e"," ","{","}">>
MapInterface == <<"m","a","p","[","s","t","r","i","n","g","]","i","n","t","e","r","f","a","c","e","{","}">>
MapAny == <<"m","a","p","[","s","t","r","i","n","g","]","a","n","y">>
Timestamp == <<"t","i","m","e","s","t","a","m","p">>
Jsonb == <<"j","s","o","n","b">>
IntType == <<"i","n","t">>

\* strings.ReplaceAll(s, ".", "-")
ReplaceDots(s) == [i \in 1..Len(s) |-> IF s[i] = "." THEN "-" ELSE s[i]]

\* Faulty variant: the default case returns the name unchanged.
formatTypeNoFlatten(s) ==
    IF s = TimeTime THEN Timestamp
    ELSE IF s \in {MapInterfaceSp, MapInterface, MapAny} THEN Jsonb
    ELSE s

formatType(s) ==
    IF s = TimeTime THEN Timestamp
    ELSE IF s \in {MapInterfaceSp, MapInterface, MapAny} THEN Jsonb
    ELSE ReplaceDots(s)

(***************************************************************************)
(* insertMultiLineString (entmaid.go:153-182).  The result records what    *)
(* the call did: the error it returned, whether it reached os.WriteFile,   *)
(* and the content it wrote.                                               *)
(***************************************************************************)
\* Line 173: the new content.
updatedContent(fileContent, multiLineString, startIndex, startPattern, endIndex) ==
    Slice(fileContent, 0, startIndex + Len(startPattern) + 1)
        \o multiLineString \o <<NL>> \o Slice(fileContent, endIndex, Len(fileContent))

\* Faulty variant: the write happens before the markers are checked.
insertWriteFirst(fileContent, multiLineString, startPattern, endPattern) ==
    LET startIndex == Index(fileContent, startPattern)
        endIndex == Index(fileContent, endPattern)
    IN  IF startIndex = -1 \/ endIndex = -1
        THEN [outcome |-> "error", wrote |-> TRUE, content |-> multiLineString \o <<NL>>]
        ELSE IF startIndex + Len(startPattern) + 1 > Len(fileContent)
        THEN [outcome |-> "panic", wrote |-> FALSE, content |-> fileContent]
        ELSE [outcome |-> "ok", wrote |-> TRUE,
              content |-> updatedContent(fileContent, multiLineString, startIndex, startPattern, endIndex)]

\* Faulty variant: the suffix starts after the end marker instead of at it.
insertDropEndMarker(fileContent, multiLineString, startPattern, endPattern) ==
    LET startIndex == Index(fileContent, startPattern)
        endIndex == Index(fileContent, endPattern)
    IN  IF startIndex = -1 \/ endIndex = -1
        THEN [outcome |-> "error", wrote |-> FALSE, content |-> fileContent]
        ELSE IF startIndex + Len(startPattern) + 1 > Len(fileContent)
        THEN [outcome |-> "panic", wrote |-> FALSE, content |-> fileContent]
        ELSE [outcome |-> "ok", wrote |-> TRUE,
              content |-> Slice(fileContent, 0, startIndex + Len(startPattern) + 1)
                            \o multiLineString \o <<NL>>
                            \o Slice(fileContent, endIndex + Len(endPattern), Len(fileContent))]

\* Faulty variant: the prefix stops at the end of the start marker (no extra character kept).
insertNoExtraChar(fileContent, multiLineString, startPattern, endPattern) ==
    LET startIndex == Index(fileContent, startPattern)
        endIndex == Index(fileContent, endPattern)
    IN  IF startIndex = -1 \/ endIndex = -1
        THEN [outcome |-> "error", wrote |-> FALSE, content |-> fileContent]
        ELSE [outcome |-> "ok", wrote |-> TRUE,
              content |-> Slice(fileContent, 0, startIndex + Len(startPattern))
                            \o multiLineString \o <<NL>>
                            \o Slice(fileContent, endIndex, Len(fileContent))]

\* Faulty variant: the original middle region is kept after the inserted text.
insertKeepMiddle(fileContent, multiLineString, startPattern, endPattern) ==
    LET startIndex == Index(fileContent, startPattern)
        endIndex == Index(fileContent, endPattern)
        cut == startIndex + Len(startPattern) + 1
    IN  IF startIndex = -1 \/ endIndex = -1
        THEN [outcome |-> "error", wrote |-> FALSE, content |-> fileContent]
        ELSE IF cut > Len(fileContent)
        THEN [outcome |-> "panic", wrote |-> FALSE, content |-> fileContent]
        ELSE [outcome |-> "ok", wrote |-> TRUE,
              content |-> Slice(fileContent, 0, cut) \o multiLineString \o <<NL>>
                            \o Slice(fileContent, cut, Len(fileContent))]

insertMultiLineString(fileContent, multiLineString, startPattern, endPattern) ==
    LET startIndex == Index(fileContent, startPattern)
        endIndex == Index(fileContent, endPattern)
    IN  IF startIndex = -1 \/ endIndex = -1
        THEN \* line 168-170: fmt.Errorf, nothing written
             [outcome |-> "error", wrote |-> FALSE, content |-> fileContent]
        ELSE IF startIndex + Len(startPattern) + 1 > Len(fileContent)
        THEN \* line 173: fileContent[:k] with k > len(fileContent) panics
             \* (slice bounds out of range) before os.WriteFile is reached
             [outcome |-> "panic", wrote |-> FALSE, content |-> fileContent]
        ELSE \* line 173-181
             [outcome |-> "ok", wrote |-> TRUE,
              content |-> updatedContent(fileContent, multiLineString, startIndex, startPattern, endIndex)]

(***************************************************************************)
(* generateMermaidCode (entmaid.go:36-103).                                *)
(*                                                                         *)
(* A node is [Name, HasOneFieldID, ID, Fields, ForeignKeys, Edges]; a      *)
(* field is [Name, Type]; a foreign key is [Field, UserDefined]; an edge   *)
(* is [Name, Rel, Inverse, Type, Ref] with Rel = [Type, Table, Columns],   *)
(* Type = [Name] the target node and Ref = [IsNil, Name] the counterpart   *)
(* edge (a nil pointer when IsNil).                                        *)
(***************************************************************************)
RECURSIVE ConcatAll(_)
\* The concatenation of a sequence of sequences.
ConcatAll(ss) == IF ss = <<>> THEN <<>> ELSE Head(ss) \o ConcatAll(Tail(ss))

SP == " "
SymO2M == <<"|","o","-","-","o","{">>
SymM2O == <<"}","o","-","-","o","|">>
SymM2M == <<"}","o","-","-","o","{">>
SymO2O == <<"|","o","-","-","o","|">>

\* gen.Edge predicates used by the builder.
M2M(edge) == edge.Rel.Type = "M2M"
O2M(edge) == edge.Rel.Type = "O2M"
M2O(edge) == edge.Rel.Type = "M2O"
IsInverse(edge) == edge.Inverse

\* getEdgeRelationship (entmaid.go:129-143)
getEdgeRelationship(edge) ==
    IF O2M(edge) THEN SymO2M
    ELSE IF M2O(edge) THEN SymM2O
    ELSE IF M2M(edge) THEN SymM2M
    ELSE SymO2O

\* getEdgeRefName (entmaid.go:145-151)
getEdgeRefName(ref) == IF ref.IsNil THEN <<>> ELSE <<"-">> \o ref.Name

\* The lines of the Sprintf formats, without their final "\n".
headerLine(name) == <<SP>> \o name \o <<SP, "{">>
closeLines == << <<SP, "}">>, <<>> >>
idLine(type, name) == <<SP, SP>> \o type \o <<SP>> \o name \o <<SP, "P", "K">>
fieldLine(type, name) == <<SP, SP>> \o type \o <<SP>> \o name
fkLine(type, name) == <<SP, SP>> \o type \o <<SP>> \o name \o <<SP, "F", "K">>
columnLine(column) == <<SP, SP>> \o IntType \o <<SP>> \o column \o <<SP, "P", "K", ",", "F", "K">>
relLine(owner, symbol, target, edgeName, refSuffix) ==
    <<SP>> \o owner \o <<SP>> \o symbol \o <<SP>> \o target \o <<SP, ":", SP>> \o edgeName \o refSuffix

\* Faulty variant: user-defined foreign keys are written like the generated ones.
foreignKeyLinesAll(foreignKey) ==
    << fkLine(formatType(foreignKey.Field.Type), foreignKey.Field.Name) >>

\* Lines 52-60, for one foreign key.
foreignKeyLines(foreignKey) ==
    IF foreignKey.UserDefined THEN <<>>
    ELSE << fkLine(formatType(foreignKey.Field.Type), foreignKey.Field.Name) >>

\* Lines 42-62: the block of one node.
entityBlock(node) ==
    << headerLine(node.Name) >>
    \o (IF node.HasOneFieldID THEN << idLine(formatType(node.ID.Type), node.ID.Name) >> ELSE <<>>)
    \o [i \in 1..Len(node.Fields) |-> fieldLine(formatType(node.Fields[i].Type), node.Fields[i].Name)]
    \o ConcatAll([i \in 1..Len(node.ForeignKeys) |-> foreignKeyLines(node.ForeignKeys[i])])
    \o closeLines

\* Faulty variant: the inverse guard of line 69 is missing.
joinTableBlockBothSides(edge) ==
    IF M2M(edge)
    THEN << headerLine(edge.Rel.Table) >>
         \o [i \in 1..Len(edge.Rel.Columns) |-> columnLine(edge.Rel.Columns[i])]
         \o closeLines
    ELSE <<>>

\* Lines 64-80, for one edge: the join table of a forward many-to-many edge.
joinTableBlock(edge) ==
    IF M2M(edge) /\ ~IsInverse(edge)
    THEN << headerLine(edge.Rel.Table) >>
         \o [i \in 1..Len(edge.Rel.Columns) |-> columnLine(edge.Rel.Columns[i])]
         \o closeLines
    ELSE <<>>

\* Faulty variant: inverse edges are not skipped in the second pass.
relationshipLinesKeepInverse(node, edge) ==
    IF M2M(edge)
    THEN << relLine(node.Name, SymO2M, edge.Rel.Table, edge.Name, getEdgeRefName(edge.Ref)) >>
    ELSE << relLine(node.Name, getEdgeRelationship(edge), edge.Type.Name, edge.Name,
                    getEdgeRefName(edge.Ref)) >>

\* Faulty variant: many-to-many edges go through getEdgeRelationship and skip the inverse side.
relationshipLinesNoM2MCase(node, edge) ==
    IF IsInverse(edge) THEN <<>>
    ELSE << relLine(node.Name, getEdgeRelationship(edge),
                    IF M2M(edge) THEN edge.Rel.Table ELSE edge.Type.Name,
                    edge.Name, getEdgeRefName(edge.Ref)) >>

\* Lines 84-99, for one edge of one node.  strings.Builder.WriteString never
\* returns an error, so the return of line 97 is never taken.
relationshipLines(node, edge) ==
    IF M2M(edge)
    THEN << relLine(node.Name, SymO2M, edge.Rel.Table, edge.Name, getEdgeRefName(edge.Ref)) >>
    ELSE IF IsInverse(edge) THEN <<>>
    ELSE << relLine(node.Name, getEdgeRelationship(edge), edge.Type.Name, edge.Name,
                    getEdgeRefName(edge.Ref)) >>

ErDiagram == <<"e","r","D","i","a","g","r","a","m">>

\* Lines 41-81 for one node: its block, then the join tables of its edges.
nodeBlocks(node) ==
    entityBlock(node)
    \o ConcatAll([j \in 1..Len(node.Edges) |-> joinTableBlock(node.Edges[j])])

\* Lines 83-100 for one node.
nodeRelationships(node) ==
    ConcatAll([j \in 1..Len(node.Edges) |-> relationshipLines(node, node.Edges[j])])

\* Faulty variant: the join tables are written in a pass of their own, after every entity block.
generateJoinTablesLast(nodes) ==
    << ErDiagram >>
    \o ConcatAll([i \in 1..Len(nodes) |-> entityBlock(nodes[i])])
    \o ConcatAll([i \in 1..Len(nodes) |->
            ConcatAll([j \in 1..Len(nodes[i].Edges) |-> joinTableBlock(nodes[i].Edges[j])])])
    \o ConcatAll([i \in 1..Len(nodes) |-> nodeRelationships(nodes[i])])

generateMermaidCode(nodes) ==
    << ErDiagram >>
    \o ConcatAll([i \in 1..Len(nodes) |-> nodeBlocks(nodes[i])])
    \o ConcatAll([i \in 1..Len(nodes) |-> nodeRelationships(nodes[i])])

(***************************************************************************)
(* Inputs of the builder: graphs as entc.LoadGraph builds them.  Node      *)
(* names are unique in a graph, edge names, field names and foreign-key    *)
(* columns are unique in a node, join tables are not named like nodes, an  *)
(* inverse edge always has its counterpart (Ref), and the inverse side of  *)
(* a many-to-many relation lists the columns of the table in reverse.      *)
(***************************************************************************)
NodeLetters == <<"A", "B", "C", "D">>
EdgeLetters == <<"p", "q", "r", "v">>
NodeNameAt(i) == << NodeLetters[i] >>
EdgeNameAt(j) == << EdgeLetters[j] >>
RefName == <<"z">>
Tables == { <<"T">>, <<"U">> }
ColumnsOf(table) == IF table = <<"T">> THEN << <<"a">>, <<"b">> >> ELSE << <<"c">>, <<"d">> >>
Reverse(s) == [i \in 1..Len(s) |-> s[Len(s) + 1 - i]]

\* What distinguishes one edge from another for the builder.
EdgeShapes ==
    { [kind |-> k, inverse |-> d[1], hasRef |-> d[2], table |-> <<"w">>]
        : k \in {"O2O", "O2M", "M2O"}, d \in {<<TRUE, TRUE>>, <<FALSE, TRUE>>, <<FALSE, FALSE>>} }
    \cup
    { [kind |-> "M2M", inverse |-> d[1], hasRef |-> d[2], table |-> t]
        : t \in Tables, d \in {<<TRUE, TRUE>>, <<FALSE, TRUE>>, <<FALSE, FALSE>>} }

\* Edge j of node i, of n nodes, with the given shape; it leads to the next
\* node of the graph (to node i itself when it is the only one).
MkEdge(i, j, n, shape) ==
    [ Name    |-> EdgeNameAt(j),
      Rel     |-> [ Type    |-> shape.kind,
                    Table   |-> shape.table,
                    Columns |-> IF shape.kind # "M2M" THEN << <<"k">> >>
                                ELSE IF shape.inverse THEN Reverse(ColumnsOf(shape.table))
                                ELSE ColumnsOf(shape.table) ],
      Inverse |-> shape.inverse,
      Type    |-> [ Name |-> NodeNameAt((i % n) + 1) ],
      Ref     |-> [ IsNil |-> ~shape.hasRef, Name |-> IF shape.hasRef THEN RefName ELSE <<>> ] ]

IDField == [Name |-> <<"i","d">>, Type |-> IntType]
DefaultAttrs ==
    [ HasOneFieldID |-> TRUE,
      Fields        |-> << [Name |-> <<"g">>, Type |-> TimeTime] >>,
      ForeignKeys   |-> << [Field |-> [Name |-> <<"k">>, Type |-> IntType], UserDefined |-> FALSE] >> ]

MkNode(i, attrs, edges) ==
    [ Name          |-> NodeNameAt(i),
      HasOneFieldID |-> attrs.HasOneFieldID,
      ID            |-> IDField,
      Fields        |-> attrs.Fields,
      ForeignKeys   |-> attrs.ForeignKeys,
      Edges         |-> edges ]

RECURSIVE SumTo(_, _)
SumTo(f, n) == IF n = 0 THEN 0 ELSE f[n] + SumTo(f, n - 1)

\* The edge counts per node of a graph of n nodes with at most MaxEdges edges in all.
EdgeCounts(n) == {l \in [1..n -> 0..MaxEdges] : SumTo(l, n) <= MaxEdges}
EdgeSlots(n, lens) == {slot \in (1..n) \X (1..MaxEdges) : slot[2] <= lens[slot[1]]}

\* The graph of n nodes with default attributes whose node i has lens[i] edges,
\* edge j of node i having the shape sh[<<i, j>>].
EdgeGraph(n, lens, sh) ==
    [i \in 1..n |-> MkNode(i, DefaultAttrs, [j \in 1..lens[i] |-> MkEdge(i, j, n, sh[<<i, j>>])])]

\* Sequences of at most n elements of S, no element twice.
InjSeqs(S, n) == {q \in StringsUpTo(S, n) : \A i, j \in 1..Len(q) : i # j => q[i] # q[j]}

\* "f" is both a field and a foreign-key column: a user-defined foreign key is
\* a column the schema also declares as a field.
FieldNames == {"f", "g", "h"}
FKNames == {"f", "k", "o"}
\* The type of the field of each name.
FieldTypeOf(name) ==
    CASE name = "f" -> IntType
      [] name = "g" -> TimeTime
      [] OTHER -> MapAny

FieldLists ==
    { [i \in 1..Len(names) |-> [Name |-> << names[i] >>, Type |-> FieldTypeOf(names[i])]]
        : names \in InjSeqs(FieldNames, MaxFields) }

ForeignKeyLists ==
    UNION { { [i \in 1..Len(names) |->
                 [Field |-> [Name |-> << names[i] >>, Type |-> IntType], UserDefined |-> ud[i]]]
              : ud \in [1..Len(names) -> BOOLEAN] }
            : names \in InjSeqs(FKNames, MaxForeignKeys) }

AttrDomain ==
    { [HasOneFieldID |-> h, Fields |-> fs, ForeignKeys |-> fks]
        : h \in BOOLEAN, fs \in FieldLists, fks \in ForeignKeyLists }

\* The graph of n nodes without edges whose node p has the attributes attrs.
AttrGraph(n, p, attrs) ==
    [i \in 1..n |-> MkNode(i, IF i = p THEN attrs ELSE DefaultAttrs, <<>>)]

\* Either at most MaxNodes nodes with at most MaxEdges edges in all, of any
\* shape, in any order, on any node; or no edges and one node of any attributes.
InitDiagram ==
    /\ TypeIdle /\ SpliceIdle
    /\ \/ \E n \in 0..MaxNodes : \E lens \in EdgeCounts(n) :
            \E sh \in [EdgeSlots(n, lens) -> EdgeShapes] : graph = EdgeGraph(n, lens, sh)
       \/ \E n \in 1..MaxNodes : \E p \in 1..n : \E attrs \in AttrDomain :
            graph = AttrGraph(n, p, attrs)
    /\ out = <<>>
    /\ built = FALSE

GenerateMermaidCode ==
    /\ ~built
    /\ out' = generateMermaidCode(graph)
    /\ built' = TRUE
    /\ UNCHANGED graph
    /\ UNCHANGED typeVars /\ UNCHANGED spliceVars

NextDiagram == GenerateMermaidCode
SpecDiagram == InitDiagram /\ [][NextDiagram]_vars

(***************************************************************************)
(* Inputs of the splicer: any file, text and markers over a few            *)
(* characters, the empty marker included (strings.Index finds it at 0),    *)
(* and the example of the specification.  os.ReadFile and os.WriteFile are *)
(* taken to succeed.                                                       *)
(***************************************************************************)
FileChars == {"m", "x", NL}
PatternChars == {"m", NL}
TextChars == {"x", "m"}

\* The example of spec section 8: "A<<<START>>>Z<<<END>>>B".
ExStart == <<"<","<","<","S","T","A","R","T",">",">",">">>
ExEnd == <<"<","<","<","E","N","D",">",">",">">>
ExFile == <<"A">> \o ExStart \o <<"Z">> \o ExEnd \o <<"B">>
ExText == <<"X">>


InitSplice ==
    /\ DiagramIdle /\ TypeIdle
    /\ \/ /\ targetFile \in StringsUpTo(FileChars, MaxFileLen)
          /\ insertion \in StringsUpTo(TextChars, MaxTextLen)
          /\ startMarker \in StringsUpTo(PatternChars, MaxPatternLen)
          /\ endMarker \in StringsUpTo(PatternChars, MaxPatternLen)
       \/ /\ targetFile = ExFile
          /\ insertion = ExText
          /\ startMarker = ExStart
          /\ endMarker = ExEnd
    /\ origFile = targetFile
    /\ prevFile = targetFile
    /\ status = "none" /\ writes = 0 /\ runs = 0

\* One call insertMultiLineString(filePath, insertion, startMarker, endMarker);
\* the tool is re-run with the same arguments on the file it left behind.
InsertMultiLineString ==
    /\ runs < MaxRuns
    /\ LET r == insertMultiLineString(targetFile, insertion, startMarker, endMarker)
       IN  /\ targetFile' = IF r.wrote THEN r.content ELSE targetFile
           /\ writes' = IF r.wrote THEN writes + 1 ELSE writes
           /\ status' = r.outcome
    /\ prevFile' = targetFile
    /\ runs' = runs + 1
    /\ UNCHANGED <<origFile, insertion, startMarker, endMarker>>
    /\ UNCHANGED diagramVars /\ UNCHANGED typeVars

NextSplice == InsertMultiLineString
SpecSplice == InitSplice /\ [][NextSplice]_vars

(***************************************************************************)
(* Inputs of formatType: the names Type.String() gives, qualified by any   *)
(* number of '.'; a Go type name holds no '-'.                             *)
(***************************************************************************)
TypeChars == {"a", "T", "."}
TypeNames == StringsUpTo(TypeChars, MaxTypeLen)
                \cup {TimeTime, MapInterfaceSp, MapInterface, MapAny, IntType}

InitType ==
    /\ DiagramIdle /\ SpliceIdle
    /\ typeName \in TypeNames
    /\ token = <<>>
    /\ formatted = FALSE

FormatType ==
    /\ ~formatted
    /\ token' = formatType(typeName)
    /\ formatted' = TRUE
    /\ UNCHANGED typeName
    /\ UNCHANGED diagramVars /\ UNCHANGED spliceVars

NextType == FormatType
SpecType == InitType /\ [][NextType]_vars

(***************************************************************************)
(* Properties of the builder, stated on the text it returns.  The text is  *)
(* read back line by line: P below is always Parse(out), the indentation,  *)
(* the words and the kind of every line.                                   *)
(***************************************************************************)
RECURSIVE SortedSeq(_)
SortedSeq(S) ==
    IF S = {} THEN <<>>
    ELSE LET m == CHOOSE x \in S : \A y \in S : x <= y IN <<m>> \o SortedSeq(S \ {m})

RECURSIVE LeadingSpaces(_, _)
LeadingSpaces(l, i) == IF i <= Len(l) /\ l[i] = SP THEN 1 + LeadingSpaces(l, i + 1) ELSE 0

\* Number of leading spaces.
Indent(l) == LeadingSpaces(l, 1)

RECURSIVE WordsFrom(_, _, _)
\* The words of l from position i on, word being the word read so far.
WordsFrom(l, i, word) ==
    IF i > Len(l) THEN (IF word = <<>> THEN <<>> ELSE << word >>)
    ELSE IF l[i] = SP THEN (IF word = <<>> THEN <<>> ELSE << word >>) \o WordsFrom(l, i + 1, <<>>)
    ELSE WordsFrom(l, i + 1, Append(word, l[i]))

\* The maximal runs of non-space characters, left to right.
Words(l) == WordsFrom(l, 1, <<>>)

WordPKFK == <<"P", "K", ",", "F", "K">>
WordFK == <<"F", "K">>

\* " <name> {" is a header, " }" a close, "  <type> <name> ..." an attribute
\* and " <owner> <symbol> <target> : <label>" a relationship line.
KindOf(indent, words) ==
    CASE indent = 1 /\ Len(words) = 2 /\ words[2] = <<"{">> -> "header"
      [] indent = 1 /\ words = << <<"}">> >> -> "close"
      [] indent = 2 /\ Len(words) >= 2 -> "attr"
      [] indent = 1 /\ Len(words) = 5 /\ words[4] = <<":">> -> "rel"
      [] OTHER -> "other"

ParseLine(l) ==
    LET i == Indent(l)
        w == Words(l)
    IN  [indent |-> i, words |-> w, kind |-> KindOf(i, w)]

Parse(lines) == [k \in 1..Len(lines) |-> ParseLine(lines[k])]

OfKind(P, kind) == {k \in 1..Len(P) : P[k].kind = kind}
Slots(g) == {slot \in (1..Len(g)) \X (1..MaxEdges) : slot[2] <= Len(g[slot[1]].Edges)}
EdgeAt(g, slot) == g[slot[1]].Edges[slot[2]]
OwnerOf(g, slot) == g[slot[1]].Name

\* The label a relationship line gives an edge: its name, then "-" and the
\* counterpart's name when it has one.
LabelOf(edge) == IF edge.Ref.IsNil THEN edge.Name ELSE edge.Name \o <<"-">> \o edge.Ref.Name

\* The relationship lines written for the edge at slot: those of its owner
\* whose label is the edge's name, alone or followed by "-<name>".
LinesOfEdge(P, g, slot) ==
    LET name == EdgeAt(g, slot).Name
    IN  {k \in OfKind(P, "rel") :
            /\ P[k].words[1] = OwnerOf(g, slot)
            /\ LET label == P[k].words[5]
               IN  \/ label = name
                   \/ /\ Len(label) > Len(name) + 1
                      /\ SubSeq(label, 1, Len(name)) = name
                      /\ label[Len(name) + 1] = "-"}

\* ---- C1 ----
M2MSlots(g, table) == {slot \in Slots(g) : M2M(EdgeAt(g, slot)) /\ EdgeAt(g, slot).Rel.Table = table}
UsedTables(g) == {table \in Tables : M2MSlots(g, table) # {}}
ColumnSet(edge) == {edge.Rel.Columns[i] : i \in 1..Len(edge.Rel.Columns)}

\* Every many-to-many relation of g is a pair of edges on one table, one of them inverse.
ProperlyPaired(g) ==
    \A table \in UsedTables(g) :
        /\ Cardinality(M2MSlots(g, table)) = 2
        /\ Cardinality({slot \in M2MSlots(g, table) : IsInverse(EdgeAt(g, slot))}) = 1
        /\ \A s1, s2 \in M2MSlots(g, table) : ColumnSet(EdgeAt(g, s1)) = ColumnSet(EdgeAt(g, s2))

HeadersOf(P, name) == {k \in OfKind(P, "header") : P[k].words[1] = name}

\* Line k opens a block holding one "int <col> PK,FK" line per column of cols, then " }".
IsJoinBlockAt(P, k, cols) ==
    LET n == Cardinality(cols)
    IN  /\ k + n + 1 <= Len(P)
        /\ \A c \in 1..n : /\ P[k + c].indent = 2
                           /\ Len(P[k + c].words) = 3
                           /\ P[k + c].words[1] = IntType
                           /\ P[k + c].words[3] = WordPKFK
        /\ {P[k + c].words[2] : c \in 1..n} = cols
        /\ P[k + n + 1].kind = "close"

\* C1: in a graph whose many-to-many relations are all pairs of edges on one
\* relation table with exactly one side inverse, the output holds exactly one
\* block headed " T {" per relation table T, with one "int <col> PK,FK" line
\* per column, wherever the two edges stand among the nodes and edges.
C1_JoinTableOnce ==
    (built /\ ProperlyPaired(graph)) =>
        LET P == Parse(out)
        IN  \A table \in UsedTables(graph) :
                /\ Cardinality(HeadersOf(P, table)) = 1
                /\ \A k \in HeadersOf(P, table) : \A slot \in M2MSlots(graph, table) :
                     IsJoinBlockAt(P, k, ColumnSet(EdgeAt(graph, slot)))

\* The inverse side stands on the first node, the forward side on the second.
C1_Witness ==
    /\ built /\ ProperlyPaired(graph) /\ Len(graph) = 2
    /\ \E table \in UsedTables(graph) :
         /\ \E slot \in M2MSlots(graph, table) : slot[1] = 1 /\ IsInverse(EdgeAt(graph, slot))
         /\ \E slot \in M2MSlots(graph, table) : slot[1] = 2 /\ ~IsInverse(EdgeAt(graph, slot))
         /\ Cardinality(HeadersOf(Parse(out), table)) = 1

\* ---- C2 ----
SymbolWord(edge) ==
    CASE edge.Rel.Type = "O2M" -> <<"|","o","-","-","o","{">>
      [] edge.Rel.Type = "M2O" -> <<"}","o","-","-","o","|">>
      [] OTHER -> <<"|","o","-","-","o","|">>

PlainSlots(g) == {slot \in Slots(g) : ~M2M(EdgeAt(g, slot))}
ForwardPlainSlots(g) == {slot \in PlainSlots(g) : ~IsInverse(EdgeAt(g, slot))}
\* Relationship lines whose target is a node, not a join table.
PlainRelLines(P) == {k \in OfKind(P, "rel") : P[k].words[3] \notin Tables}

\* C2: an inverse edge that is not many-to-many has no relationship line, a
\* forward edge that is not many-to-many has exactly one, and it reads
\* " <owner> <symbol> <target> : <edgeName><refSuffix>"; so there are as many
\* such lines as forward edges that are not many-to-many.
C2_InverseSkipped ==
    built =>
        LET P == Parse(out)
        IN  /\ \A slot \in PlainSlots(graph) :
                 LET edge == EdgeAt(graph, slot)
                 IN  IF IsInverse(edge)
                     THEN LinesOfEdge(P, graph, slot) = {}
                     ELSE /\ Cardinality(LinesOfEdge(P, graph, slot)) = 1
                          /\ \A k \in LinesOfEdge(P, graph, slot) :
                               P[k].words = << OwnerOf(graph, slot), SymbolWord(edge), edge.Type.Name,
                                               <<":">>, LabelOf(edge) >>
            /\ Cardinality(PlainRelLines(P)) = Cardinality(ForwardPlainSlots(graph))

\* One node holds an inverse and a forward edge, neither many-to-many.
C2_Witness ==
    /\ built
    /\ \E s1, s2 \in PlainSlots(graph) :
         /\ s1[1] = s2[1] /\ s1[2] < s2[2]
         /\ IsInverse(EdgeAt(graph, s1)) /\ ~IsInverse(EdgeAt(graph, s2))
         /\ EdgeAt(graph, s2).Rel.Type = "M2O"
    /\ Cardinality(PlainRelLines(Parse(out))) = 1

\* ---- C9 ----
AllM2MSlots(g) == {slot \in Slots(g) : M2M(EdgeAt(g, slot))}
JoinRelLines(P) == {k \in OfKind(P, "rel") : P[k].words[3] \in Tables}

\* C9: every many-to-many edge, inverse or not, has exactly one relationship
\* line, " <owner> |o--o{ <joinTable> : <edgeName><refSuffix>", whose target
\* is the join table; and no line of any output holds the symbol "}o--o{".
C9_ManyToManyLines ==
    built =>
        LET P == Parse(out)
        IN  /\ \A slot \in AllM2MSlots(graph) :
                 LET edge == EdgeAt(graph, slot)
                 IN  /\ Cardinality(LinesOfEdge(P, graph, slot)) = 1
                     /\ \A k \in LinesOfEdge(P, graph, slot) :
                          P[k].words = << OwnerOf(graph, slot), <<"|","o","-","-","o","{">>,
                                          edge.Rel.Table, <<":">>, LabelOf(edge) >>
            /\ Cardinality(JoinRelLines(P)) = Cardinality(AllM2MSlots(graph))
            /\ \A k \in 1..Len(P) : \A w \in 1..Len(P[k].words) :
                 P[k].words[w] # <<"}","o","-","-","o","{">>

\* An inverse many-to-many edge with a counterpart and a forward one without.
C9_Witness ==
    /\ built
    /\ \E s1, s2 \in AllM2MSlots(graph) :
         /\ IsInverse(EdgeAt(graph, s1)) /\ ~EdgeAt(graph, s1).Ref.IsNil
         /\ ~IsInverse(EdgeAt(graph, s2)) /\ EdgeAt(graph, s2).Ref.IsNil
    /\ Cardinality(JoinRelLines(Parse(out))) = 2

\* ---- C8 ----
\* The names of the blocks the builder is to write for one node, in order.
BlockNamesOf(node) ==
    << node.Name >>
    \o ConcatAll([j \in 1..Len(node.Edges) |->
            IF node.Edges[j].Rel.Type = "M2M" /\ ~node.Edges[j].Inverse
            THEN << node.Edges[j].Rel.Table >> ELSE <<>>])

\* Owner and label of the relationship lines the builder is to write for one node, in order.
RelKeysOf(node) ==
    ConcatAll([j \in 1..Len(node.Edges) |->
            IF node.Edges[j].Rel.Type = "M2M" \/ ~node.Edges[j].Inverse
            THEN << <<node.Name, LabelOf(node.Edges[j])>> >> ELSE <<>>])

\* The lines of P of the given kind, in order.
InOrder(P, kind) == LET ks == SortedSeq(OfKind(P, kind)) IN [n \in 1..Len(ks) |-> P[ks[n]]]

\* C8: every line of every block stands before every relationship line; the
\* blocks follow the node order, each node's block directly followed by the
\* join tables of its forward many-to-many edges (before the next node's
\* block); the relationship lines follow node order, then edge order.
C8_BlocksThenRelationships ==
    built =>
        LET P == Parse(out)
            headers == InOrder(P, "header")
            rels == InOrder(P, "rel")
        IN  /\ \A b \in OfKind(P, "header") \cup OfKind(P, "attr") \cup OfKind(P, "close") :
                 \A r \in OfKind(P, "rel") : b < r
            /\ [n \in 1..Len(headers) |-> headers[n].words[1]]
                 = ConcatAll([i \in 1..Len(graph) |-> BlockNamesOf(graph[i])])
            /\ [n \in 1..Len(rels) |-> <<rels[n].words[1], rels[n].words[5]>>]
                 = ConcatAll([i \in 1..Len(graph) |-> RelKeysOf(graph[i])])
            /\ \A k \in OfKind(P, "header") : P[k].words[1] \in Tables
                 => (k > 2 /\ P[k - 2].kind = "close" /\ out[k - 1] = <<>>)

\* The first of two nodes owns a forward many-to-many edge, and both have a relationship line.
C8_Witness ==
    /\ built /\ Len(graph) = 2
    /\ \E slot \in AllM2MSlots(graph) : slot[1] = 1 /\ ~IsInverse(EdgeAt(graph, slot))
    /\ Len(graph[2].Edges) = 1
    /\ Cardinality(OfKind(Parse(out), "rel")) = 2
    /\ Cardinality(OfKind(Parse(out), "header")) = 3

\* ---- C6 ----
\* The lines of the block of the node called name: after its header, before its " }".
BlockOf(P, name) ==
    LET h == CHOOSE k \in HeadersOf(P, name) : TRUE
        c == CHOOSE k \in OfKind(P, "close") : k > h /\ \A m \in OfKind(P, "close") : m > h => k <= m
    IN  (h + 1)..(c - 1)

\* The lines of a block that name the field: "<type> <field> ...".
NamingLines(P, block, field) == {k \in block : Len(P[k].words) >= 2 /\ P[k].words[2] = field}
FKLines(P, block) == {k \in block : Len(P[k].words) = 3 /\ P[k].words[3] = WordFK}
PlainLines(P, block) == {k \in block : Len(P[k].words) = 2}

\* fk has exactly one line in the block, "  int <field> FK", below every plain
\* attribute line, with nothing but FK lines between it and the closing line.
GeneratedFKPlaced(P, block, fk) ==
    LET mine == NamingLines(P, block, fk.Field.Name) \cap FKLines(P, block)
    IN  /\ Cardinality(mine) = 1
        /\ \A k \in mine :
             /\ P[k].indent = 2
             /\ P[k].words[1] = IntType
             /\ \A p \in PlainLines(P, block) : p < k
             /\ \A m \in block : m > k => m \in FKLines(P, block)

\* C6 as stated: no line of the node's block names the field of a
\* user-defined foreign key; every other foreign key has exactly one line,
\* marked FK, after the field lines and before the closing line.
C6_UserDefinedNeverNamed ==
    built =>
        LET P == Parse(out)
        IN  \A i \in 1..Len(graph) :
                LET block == BlockOf(P, graph[i].Name)
                IN  \A f \in 1..Len(graph[i].ForeignKeys) :
                        LET fk == graph[i].ForeignKeys[f]
                        IN  IF fk.UserDefined
                            THEN NamingLines(P, block, fk.Field.Name) = {}
                            ELSE GeneratedFKPlaced(P, block, fk)

\* C6 amended: a user-defined foreign key has no line marked FK (its field is
\* still named by a plain attribute line when it is one of the node's Fields,
\* and by no other line); every other foreign key has exactly one line, marked
\* FK, after the field lines and before the closing line.
C6_ForeignKeys ==
    built =>
        LET P == Parse(out)
        IN  \A i \in 1..Len(graph) :
                LET block == BlockOf(P, graph[i].Name)
                    fields == {graph[i].Fields[n].Name : n \in 1..Len(graph[i].Fields)}
                IN  /\ \A f \in 1..Len(graph[i].ForeignKeys) :
                         LET fk == graph[i].ForeignKeys[f]
                             naming == NamingLines(P, block, fk.Field.Name)
                         IN  IF fk.UserDefined
                             THEN /\ naming \cap FKLines(P, block) = {}
                                  /\ naming \subseteq PlainLines(P, block)
                                  /\ Cardinality(naming) = (IF fk.Field.Name \in fields THEN 1 ELSE 0)
                             ELSE GeneratedFKPlaced(P, block, fk)
                    /\ Cardinality(FKLines(P, block))
                         = Cardinality({f \in 1..Len(graph[i].ForeignKeys) :
                                            ~graph[i].ForeignKeys[f].UserDefined})

\* A node with fields, a user-defined foreign key on one of them and a generated one.
C6_Witness ==
    /\ built
    /\ \E i \in 1..Len(graph) :
         /\ Len(graph[i].Fields) = 2 /\ Len(graph[i].ForeignKeys) = 2
         /\ graph[i].ForeignKeys[1].UserDefined
         /\ \E n \in 1..2 : graph[i].Fields[n].Name = graph[i].ForeignKeys[1].Field.Name
         /\ ~graph[i].ForeignKeys[2].UserDefined
         /\ Cardinality(FKLines(Parse(out), BlockOf(Parse(out), graph[i].Name))) = 1

(***************************************************************************)
(* Properties of the splicer.                                              *)
(***************************************************************************)
Chars(s) == {s[i] : i \in 1..Len(s)}
StartIdx(F) == Index(F, startMarker)
EndIdx(F) == Index(F, endMarker)
\* First index after the start marker and the one character kept after it.
CutIdx(F) == StartIdx(F) + Len(startMarker) + 1
BothFound(F) == StartIdx(F) # -1 /\ EndIdx(F) # -1

\* new = F[0 .. CutIdx) ++ insertion ++ "\n" ++ F[EndIdx ..], stated position by position.
IsSpliceOf(new, F) ==
    LET k == CutIdx(F)
        e == EndIdx(F)
        n == Len(insertion)
    IN  /\ k <= Len(F)
        /\ Len(new) = k + n + 1 + (Len(F) - e)
        /\ \A i \in 1..k : new[i] = F[i]
        /\ \A i \in 1..n : new[k + i] = insertion[i]
        /\ new[k + n + 1] = NL
        /\ \A i \in 1..(Len(F) - e) : new[k + n + 1 + i] = F[e + i]

C4_ExampleAsStated ==
    (runs = 1 /\ prevFile = ExFile /\ insertion = ExText /\ startMarker = ExStart /\ endMarker = ExEnd)
        => targetFile = <<"A">> \o ExStart \o <<" ", "X", NL, "Z">> \o ExEnd \o <<"B">>

\* C4 amended: the example file becomes "A<<<START>>>ZX\n<<<END>>>B": the one
\* character kept after the start marker is the Z, the text follows it, and
\* nothing else stands between the newline and the end marker.
C4_Example ==
    (runs = 1 /\ prevFile = ExFile /\ insertion = ExText /\ startMarker = ExStart /\ endMarker = ExEnd)
        => (status = "ok" /\ targetFile = <<"A">> \o ExStart \o <<"Z", "X", NL>> \o ExEnd \o <<"B">>)

C4_Witness ==
    runs = 1 /\ prevFile = ExFile /\ insertion = ExText /\ startMarker = ExStart
        /\ endMarker = ExEnd /\ status = "ok" /\ writes = 1

\* C5: a call on a file lacking a marker returns the error, performs no
\* write and leaves the content as it was; a write happens only in a call
\* that found both markers, and it writes the fully assembled content.
C5_NoWriteWithoutMarkers ==
    [][ /\ (~BothFound(targetFile))
            => (status' = "error" /\ writes' = writes /\ targetFile' = targetFile)
        /\ (writes' # writes)
            => (BothFound(targetFile) /\ writes' = writes + 1 /\ IsSpliceOf(targetFile', targetFile))
      ]_vars

\* A call failed on a non-empty file that holds one marker but not the other.
C5_Witness ==
    /\ runs >= 1 /\ status = "error" /\ writes = 0 /\ targetFile = origFile
    /\ Len(targetFile) > 0
    /\ StartIdx(targetFile) # -1 /\ EndIdx(targetFile) = -1

\* C10: when the first end marker starts at or after the position one
\* character past the start marker and the end marker holds no newline and
\* no character of the text, every later run with the same arguments
\* succeeds and leaves the content of the first run, markers in place.
C10_Precondition(F) ==
    /\ BothFound(F)
    /\ EndIdx(F) >= CutIdx(F)
    /\ NL \notin Chars(endMarker)
    /\ Chars(insertion) \cap Chars(endMarker) = {}

C10_Idempotent ==
    (runs >= 2 /\ C10_Precondition(origFile))
        => /\ status = "ok"
           /\ targetFile = prevFile
           /\ StartIdx(targetFile) = StartIdx(origFile)
           /\ EndIdx(targetFile) = EndIdx(prevFile)

\* A second run after a first run that changed the file.
C10_Witness ==
    /\ runs = 2 /\ C10_Precondition(origFile) /\ status = "ok" /\ writes = 2
    /\ Len(startMarker) > 0 /\ Len(insertion) > 0
    /\ prevFile # origFile /\ targetFile = prevFile

(***************************************************************************)
(* Properties of formatType.                                               *)
(***************************************************************************)
\* The token has a '-' exactly where the name has a '.', and no '.'.
Flattened(name, tok) ==
    /\ Len(tok) = Len(name)
    /\ \A i \in 1..Len(name) : (name[i] = ".") <=> (tok[i] = "-")
    /\ CountChar(tok, "-") = CountChar(name, ".")
    /\ CountChar(tok, ".") = 0

\* C7 as stated: every type name, "time.Time" included, is flattened.
C7_FlattenEveryName == formatted => Flattened(typeName, token)

\* C7 amended: every type name other than "time.Time" with N '.' yields a token
\* with N '-' and no '.'; "time.Time" yields "timestamp", which has neither.
C7_Flatten ==
    formatted =>
        /\ CountChar(token, ".") = 0
        /\ IF typeName = TimeTime
           THEN token = Timestamp /\ CountChar(token, "-") = 0
           ELSE CountChar(token, "-") = CountChar(typeName, ".")
        /\ (typeName \notin {TimeTime, MapInterfaceSp, MapInterface, MapAny})
              => Flattened(typeName, token)

C7_Witness ==
    formatted /\ typeName # TimeTime /\ CountChar(typeName, ".") = 2
        /\ CountChar(token, "-") = 2 /\ Len(token) = 4

====
